---------------------------- MODULE Spec2Model ----------------------------
(***************************************************************************)
(* Model of the CrossLingualMorphTagger inference code:                    *)
(*   layers.py       segment_sum, DecoderRNN.predict (greedy),             *)
(*                   DecoderRNN.predict_beam, DecoderFF.predict            *)
(*   predict.py      predict_sentence, predict, predict_unimorph           *)
(*   data_loaders.py ConllDataset reserved tokens                          *)
(*                                                                         *)
(* Learned networks are abstracted to what the decoding code reads from    *)
(* them: the arg-max / top-k symbols and their probabilities.  These are   *)
(* nondeterministic, but a function of the symbols fed so far, so greedy   *)
(* and beam decoding run against the same scoring function.                *)
(* Probabilities are exact rationals <<numerator, denominator>>.           *)
(***************************************************************************)
EXTENDS Integers, Sequences, FiniteSets, TLC

(***************************************************************************)
(* Bounds of the model                                                     *)
(***************************************************************************)
NumSymbols == 1        \* real (non reserved) symbols of a target vocabulary
MaxSurfaceLen == 2     \* surface_len values handed to predict_beam: 0..MaxSurfaceLen
MaxLen == 3            \* max_len values handed to DecoderRNN.predict: 1..MaxLen
MaxBeam == 2           \* beam_size values: 1..MaxBeam
NumTags == 2           \* real tags of the vocabulary handed to DecoderFF
MaxSubwords == 4       \* subwords of a sentence handed to segment_sum: 0..MaxSubwords
MaxLabel == 2          \* word-index labels handed to segment_sum: 0..MaxLabel
MaxWordLen == 2        \* characters of a surface word: 0..MaxWordLen
MaxWords == 2          \* words of a sentence: 0..MaxWords
MaxSentences == 2      \* sentences a driver reads from its input file
MaxCorpusSentences == 2 \* sentences of a training file: 0..MaxCorpusSentences
MaxDatasets == 2       \* ConllDataset objects constructed one after the other
NumCallers == 2        \* calls of EncoderRNN.forward in progress on one encoder
MaxHiddenSize == 2     \* hidden_size of a DecoderFF: 1..MaxHiddenSize
MaxBatch == 2          \* batch dimension of the encoder input: 1..MaxBatch

(***************************************************************************)
(* Reserved vocabulary ids (data_loaders.py: PAD, EOS, START are inserted  *)
(* first, so they get ids 0, 1, 2)                                         *)
(***************************************************************************)
PAD == 0
END == 1
START == 2

VARIABLES
    \* ---- decoder harness: DecoderRNN.predict_beam, then DecoderRNN.predict
    surface_len,        \* predict_beam argument
    beam_size,          \* predict_beam argument
    max_len,            \* predict argument
    symLen,             \* characters of a real symbol's token (1: characters, 2: tags)
    am,                 \* arg-max symbols of the network along the greedy path
    bpc,                \* position in predict_beam
    states,             \* predict_beam: states
    new_states,         \* predict_beam: new_states
    completed_states,   \* predict_beam: completed_states
    rounds,             \* predict_beam: iterations of the outer while loop started
    expansions,         \* predict_beam: outer iterations in which a state advanced
    expanded,           \* predict_beam: a state advanced in the current iteration
    bresult,            \* predict_beam: outcome
    gpc,                \* position in predict
    di,                 \* predict: loop counter
    predicted_token,    \* predict: predicted_token
    predictions,        \* predict: predictions
    fed,                \* predict: the symbols embedded and fed to the GRU, per step
    \* ---- DecoderFF.predict
    ffScores,           \* sigmoid output per tag id, in hundredths
    ffpc,               \* position in DecoderFF.predict
    ffOut,              \* DecoderFF.predict: predictions
    hidden_size,        \* DecoderFF attribute self.hidden_size
    with_transformer,   \* DecoderFF argument: transformer_context is not None
    ff_hidden,          \* DecoderFF.predict: hidden, the input of self.W
    fwdpc,              \* position in DecoderFF.forward
    ff_outputs,         \* DecoderFF.forward: outputs, the input of self.W, and how it ended
    \* ---- segment_sum
    pool_data,          \* data: one embedding per subword
    pool_ids,           \* segment_ids: one word index per subword
    poolpc,             \* position in segment_sum
    poolRes,            \* segment_sum: outcome
    \* ---- predict_sentence and its callers predict / predict_unimorph
    driver,             \* who calls predict_sentence
    cfg,                \* arguments and constructed decoders
    surface2lemma,      \* override dictionary: set of <<surface, lemma>>
    remaining,          \* sentences the driver has not read yet
    pc,                 \* position in predict_sentence / the driver loop
    surface_words,      \* predict_sentence argument
    word_ids,           \* word index per subword
    tRows,              \* rows of transformer_output
    wi,                 \* loop index i of the per-word loops
    lemmas,             \* predict_sentence: lemmas
    decoded,            \* lemmas as the lemma decoder returned them
    morph_tags,         \* tag list the tag decoder returned, per word
    morph_features,     \* predict_sentence: morph_features
    conll_sentence,     \* predict_sentence: returned string
    error,              \* exception that ended the call
    written,            \* strings predict_sentence returned to the driver
    file,               \* characters written to the output file
    call_log,           \* the calls predict_sentence made so far, in order
    \* ---- ConllDataset
    heap,               \* the dict objects that exist, by reference (position)
    datasets,           \* the ConllDataset objects constructed so far
    supplied,           \* per dataset: the vocabulary arguments of __init__ (0: None)
    frozen,             \* per dataset: the dicts as they were when __init__ was called
    encodeCalls,        \* the calls of ConllDataset.encode the last operation made
    item,               \* what the last operation built from them
    \* ---- EncoderRNN
    char_gru_hidden,    \* encoder attribute self.char_gru_hidden
    word_gru_hidden,    \* encoder attribute self.word_gru_hidden
    x2,                 \* per call of forward: the shape of its character-id input
    epc,                \* per call of forward: position
    eresult             \* per call of forward: outcome

decodeVars == <<surface_len, beam_size, max_len, symLen, am, bpc, states, new_states,
                completed_states, rounds, expansions, expanded, bresult,
                gpc, di, predicted_token, predictions, fed>>

ffVars == <<ffScores, ffpc, ffOut, hidden_size, with_transformer, ff_hidden, fwdpc,
           ff_outputs>>
poolVars == <<pool_data, pool_ids, poolpc, poolRes>>

sentVars == <<driver, cfg, surface2lemma, remaining, pc, surface_words, word_ids, tRows, wi,
              lemmas, decoded, morph_tags, morph_features, conll_sentence, error,
              written, file, call_log>>

vocabVars == <<heap, datasets, supplied, frozen, encodeCalls, item>>

encVars == <<char_gru_hidden, word_gru_hidden, x2, epc, eresult>>

vars == <<decodeVars, ffVars, poolVars, sentVars, vocabVars, encVars>>

(***************************************************************************)
(* Vocabulary of a DecoderRNN: ids 0..vocab_size-1                         *)
(***************************************************************************)
vocab_size == 3 + NumSymbols
VocabIds == 0 .. (vocab_size - 1)

\* len(index2token[id]): '<p>', '<e>', '<s>' have three characters
TokLen(id) == IF id <= 2 THEN 3 ELSE symLen

RECURSIVE StrLen(_)
\* len() of a prediction string built by concatenating tokens
StrLen(p) == IF p = <<>> THEN 0 ELSE TokLen(Head(p)) + StrLen(Tail(p))

(***************************************************************************)
(* Exact rationals                                                         *)
(***************************************************************************)
RatLess(a, b) == a[1] * b[2] < b[1] * a[2]
RatMul(a, b) == <<a[1] * b[1], a[2] * b[2]>>

(***************************************************************************)
(* topk(beam_size) of the softmax output: k distinct ids with              *)
(* non-increasing probabilities (quarters), summing to at most 1           *)
(***************************************************************************)
ProbNums == {1, 2}
RECURSIVE SumNums(_, _)
SumNums(t, k) == IF k = 0 THEN 0 ELSE t[k][2] + SumNums(t, k - 1)
TopK(k) ==
    { t \in [1..k -> VocabIds \X ProbNums] :
        /\ \A i, j \in 1..k : i < j => t[i][1] # t[j][1] /\ t[i][2] >= t[j][2]
        /\ SumNums(t, k) <= 4 }

(***************************************************************************)
(* DecoderRNN.predict_beam                                                 *)
(***************************************************************************)
\* State namedtuple; the recurrent hidden state is a function of the symbols
\* fed so far, which is the prediction itself (every symbol but END is appended)
State(prediction, score, normalized_score, last_output) ==
    [prediction |-> prediction, score |-> score,
     normalized_score |-> normalized_score, last_output |-> last_output]

\* states = [State('', 1.0, 1.0, START, hidden)]
InitialState == State(<<>>, <<1, 1>>, <<1, 1>>, START)

\* variant: the cap test is strict
AtCapStrict(state) == StrLen(state.prediction) > surface_len + 2

\* the length cap of a partial output: len(state.prediction) >= surface_len + 2
AtCap(state) == StrLen(state.prediction) >= surface_len + 2

\* the symbols an expansion appends to the partial output: everything but END
Appended(tok) == IF tok = END THEN <<>> ELSE <<tok>>

\* one (ix, score) pair of the top-k applied to a parent state
Child(state, pick) ==
    LET tok    == pick[1]
        score  == RatMul(state.score, <<pick[2], 4>>)
        pred   == state.prediction \o Appended(tok)
        plen   == StrLen(state.prediction) + 1
        nscore == IF tok = END
                  THEN <<score[1] * 6 * surface_len, score[2] * (5 + plen) * plen>>
                  ELSE <<score[1] * 6, score[2] * (5 + StrLen(pred))>>
    IN State(pred, score, nscore, tok)

\* SelectSeq keeps the order of the top-k loop
Children(state, t) == [j \in 1..Len(t) |-> Child(state, t[j])]
IsCompleted(st) == st.last_output = END

RECURSIVE InsertDesc(_, _)
\* insert x behind every element whose key is >= its own (stable, descending)
InsertDesc(sorted, x) ==
    IF sorted = <<>> THEN <<x>>
    ELSE IF RatLess(Head(sorted).normalized_score, x.normalized_score)
         THEN <<x>> \o sorted
         ELSE <<Head(sorted)>> \o InsertDesc(Tail(sorted), x)

\* variant: the list is left in the order of its appends
KeepsOrder(seq) == seq

RECURSIVE SortedDesc(_)
\* sorted(seq, key=attrgetter('normalized_score'), reverse=True)
SortedDesc(seq) ==
    IF seq = <<>> THEN <<>>
    ELSE InsertDesc(SortedDesc(SubSeq(seq, 1, Len(seq) - 1)), seq[Len(seq)])

\* variant: nothing is cut off
TakeAll(seq, n) == seq

\* [:n]
Take(seq, n) == SubSeq(seq, 1, IF Len(seq) < n THEN Len(seq) ELSE n)

\* the scoring function is fixed along the greedy path: the top-1 symbol after
\* feeding START and then am is recorded, and read back when already known
OnGreedyPath(prefix) == Len(prefix) <= Len(am) /\ prefix = SubSeq(am, 1, Len(prefix))
Consistent(prefix, top1) ==
    OnGreedyPath(prefix) /\ Len(prefix) < Len(am) => top1 = am[Len(prefix) + 1]
Remember(prefix, top1) ==
    IF prefix = am THEN Append(am, top1) ELSE am

\* inner loop body: state = states.pop(0); skipped at the cap, else advanced
BeamPop ==
    /\ bpc = "inner"
    /\ states # <<>>
    /\ LET state == Head(states) IN
        IF AtCap(state)
        THEN /\ states' = Tail(states)
             /\ UNCHANGED <<new_states, completed_states, am, expanded>>
        ELSE \E t \in TopK(beam_size) :
             /\ Consistent(state.prediction, t[1][1])
             /\ states' = Tail(states)
             /\ new_states' = new_states \o
                    SelectSeq(Children(state, t), LAMBDA c : ~IsCompleted(c))
             /\ completed_states' = completed_states \o
                    SelectSeq(Children(state, t), IsCompleted)
             /\ am' = Remember(state.prediction, t[1][1])
             /\ expanded' = TRUE
    /\ UNCHANGED <<surface_len, beam_size, max_len, symLen, bpc, rounds, expansions,
                   bresult, gpc, di, predicted_token, predictions, fed, ffVars, poolVars, sentVars, vocabVars, encVars>>

\* end of the inner loop: states = sorted(new_states, ...)[:beam_size], and the
\* outer while tests states again
BeamSelect ==
    /\ bpc = "inner"
    /\ states = <<>>
    /\ states' = Take(SortedDesc(new_states), beam_size)
    /\ new_states' = <<>>
    /\ expansions' = IF expanded THEN expansions + 1 ELSE expansions
    /\ expanded' = FALSE
    /\ IF states' # <<>>
       THEN bpc' = "inner" /\ rounds' = rounds + 1
       ELSE bpc' = "return" /\ rounds' = rounds
    /\ UNCHANGED <<surface_len, beam_size, max_len, symLen, am, completed_states,
                   bresult, gpc, di, predicted_token, predictions, fed, ffVars, poolVars, sentVars, vocabVars, encVars>>

\* variant: an empty completed list falls back to the empty string
BeamResultFallback(completed) ==
    IF completed = <<>>
    THEN [kind |-> "returned", prediction |-> <<>>]
    ELSE [kind |-> "returned", prediction |-> SortedDesc(completed)[1].prediction]

\* sorted(completed_states, ...)[0].prediction; [0] of an empty list raises
BeamResult(completed) ==
    IF completed = <<>>
    THEN [kind |-> "IndexError", prediction |-> <<>>]
    ELSE [kind |-> "returned", prediction |-> SortedDesc(completed)[1].prediction]

BeamReturn ==
    /\ bpc = "return"
    /\ bresult' = BeamResult(completed_states)
    /\ bpc' = "done"
    /\ gpc' = "loop"
    /\ UNCHANGED <<surface_len, beam_size, max_len, symLen, am, states, new_states,
                   completed_states, rounds, expansions, expanded,
                   di, predicted_token, predictions, fed, ffVars, poolVars, sentVars, vocabVars, encVars>>

(***************************************************************************)
(* DecoderRNN.predict (greedy)                                             *)
(***************************************************************************)
\* variant: the test lets START through
KeepsFromStart(tok) == tok > 1

\* predictions.append(...) happens only for predicted_token.item() > 2
Keeps(tok) == tok > 2

\* the arg-max of step di: the recorded one where the beam search already
\* evaluated the network on this input, any symbol otherwise
ArgMaxChoices(step) == IF step < Len(am) THEN {am[step + 1]} ELSE VocabIds

\* variant: the loop is left on padding
BreaksOnPad(tok) == tok = PAD

\* if predicted_token.item() == 1: break
BreaksOn(tok) == tok = END

\* one iteration of "for di in range(max_len)"; predicted_token holds the
\* symbol that is embedded and fed to the GRU in this iteration
GreedyStep ==
    /\ gpc = "loop"
    /\ di < max_len
    /\ fed' = Append(fed, predicted_token)
    /\ \E tok \in ArgMaxChoices(di) :
        /\ am' = IF di < Len(am) THEN am ELSE Append(am, tok)
        /\ predicted_token' = tok
        /\ IF BreaksOn(tok)
           THEN gpc' = "done" /\ predictions' = predictions /\ di' = di
           ELSE /\ predictions' = IF Keeps(tok) THEN Append(predictions, tok)
                                                ELSE predictions
                /\ di' = di + 1
                /\ gpc' = IF di + 1 < max_len THEN "loop" ELSE "done"
    /\ UNCHANGED <<surface_len, beam_size, max_len, symLen, bpc, states, new_states,
                   completed_states, rounds, expansions, expanded, bresult,
                   ffVars, poolVars, sentVars, vocabVars, encVars>>

(***************************************************************************)
(* The decoders are run on the same word: predict_beam first, predict next *)
(***************************************************************************)
DecodeInputs ==
    /\ surface_len \in 0..MaxSurfaceLen
    /\ beam_size \in 1..MaxBeam
    /\ max_len \in 1..MaxLen
    /\ symLen \in {1, 2}
    /\ am = <<>>
    /\ bpc = "inner"
    /\ states = <<InitialState>>
    /\ new_states = <<>>
    /\ completed_states = <<>>
    /\ rounds = 1
    /\ expansions = 0
    /\ expanded = FALSE
    /\ bresult = [kind |-> "none", prediction |-> <<>>]
    /\ gpc = "idle"
    /\ di = 0
    /\ predicted_token = START
    /\ predictions = <<>>
    /\ fed = <<>>

NextDecode == BeamPop \/ BeamSelect \/ BeamReturn \/ GreedyStep

\* the decoders before any call, for the specifications that do not run them
DecodeIdle ==
    /\ DecodeInputs
    /\ surface_len = 0 /\ beam_size = 1 /\ max_len = 1 /\ symLen = 1

(***************************************************************************)
(* DecoderFF.predict                                                       *)
(***************************************************************************)
ff_vocab_size == 3 + NumTags
TagIds == 0 .. (ff_vocab_size - 1)

\* sigmoid outputs in hundredths; 50 is the value the threshold compares with
ScoreLevels == {30, 50, 70}
Threshold == 50

\* preds = scores.data > 0.5
OverThreshold(score) == score > Threshold
\* preds.to(torch.float32)
BoolToFloat(b) == IF b THEN 1 ELSE 0
\* np.array(preds, dtype=np.bool)
FloatToBool(f) == f # 0

\* variant: START is let through
FFKeepsFromStart(ix, pred) == ix >= 2 /\ pred

\* if ix > 2 and pred
FFKeeps(ix, pred) == ix > 2 /\ pred

RECURSIVE FFLoop(_, _)
\* for ix, pred in enumerate(preds): predictions.append(index2token[ix])
FFLoop(preds, ix) ==
    IF ix >= ff_vocab_size THEN <<>>
    ELSE (IF FFKeeps(ix, preds[ix]) THEN <<ix>> ELSE <<>>) \o FFLoop(preds, ix + 1)

FFPredictions(scores) ==
    FFLoop([ix \in TagIds |-> FloatToBool(BoolToFloat(OverThreshold(scores[ix])))], 0)

\* a tensor as the list of the vectors concatenated along its last dimension
Part(name, width) == [part |-> name, width |-> width]
RECURSIVE Width(_)
Width(parts) == IF parts = <<>> THEN 0 ELSE Head(parts).width + Width(Tail(parts))

\* self.W = nn.Linear(2 * hidden_size, hidden_size): the input must be
\* 2 * hidden_size wide
WAccepts(parts) == Width(parts) = 2 * hidden_size

\* relu(self.W(context_vector)): the projected context vector
ProjectedContext == Part("context_vector", hidden_size)

\* DecoderFF.predict, lines 589-594: hidden
PredictHidden(transformer_context) ==
    IF transformer_context
    THEN <<Part("transformer_context", hidden_size), ProjectedContext>>
    ELSE <<ProjectedContext, Part("word_embedding", hidden_size)>>

\* DecoderFF.forward, lines 557-561: outputs
ForwardOutputs(transformer_context) ==
    IF transformer_context
    THEN <<Part("transformer_context", hidden_size), ProjectedContext>>
    ELSE <<ProjectedContext>>

\* DecoderFF.predict
FFPredict ==
    /\ ffpc = "call"
    /\ ff_hidden' = PredictHidden(with_transformer)
    /\ ffOut' = FFPredictions(ffScores)
    /\ ffpc' = "done"
    /\ UNCHANGED <<ffScores, hidden_size, with_transformer, fwdpc, ff_outputs,
                   decodeVars, poolVars, sentVars, vocabVars, encVars>>

\* DecoderFF.forward on the same decoder and the same kind of arguments
FFForward ==
    /\ fwdpc = "call"
    /\ ff_outputs' = [kind |-> IF WAccepts(ForwardOutputs(with_transformer))
                               THEN "returned" ELSE "RuntimeError",
                      input |-> ForwardOutputs(with_transformer)]
    /\ fwdpc' = "done"
    /\ UNCHANGED <<ffScores, ffpc, ffOut, hidden_size, with_transformer, ff_hidden,
                   decodeVars, poolVars, sentVars, vocabVars, encVars>>

FFInputs ==
    /\ ffScores \in [TagIds -> ScoreLevels]
    /\ ffpc = "call"
    /\ ffOut = <<>>
    /\ hidden_size \in 1..MaxHiddenSize
    /\ with_transformer \in BOOLEAN
    /\ ff_hidden = <<>>
    /\ fwdpc = "call"
    /\ ff_outputs = [kind |-> "none", input |-> <<>>]

FFIdle ==
    /\ ffScores = [ix \in TagIds |-> 30]
    /\ ffpc = "idle"
    /\ ffOut = <<>>
    /\ hidden_size = 1
    /\ with_transformer = FALSE
    /\ ff_hidden = <<>>
    /\ fwdpc = "idle"
    /\ ff_outputs = [kind |-> "none", input |-> <<>>]

(***************************************************************************)
(* segment_sum                                                             *)
(***************************************************************************)
\* embeddings are integers (one component); float rounding is left out
DataVals == {1, 2}

\* index_add of one addend into row number row (rows are numbered from 0)
AddAt(res, row, v) == [res EXCEPT ![row + 1] = @ + v]

\* torch.unique(segment_ids)
UniqueIds(ids) == {ids[i] : i \in 1..Len(ids)}

RECURSIVE IndexAdd(_, _, _, _)
\* res.index_add(0, segment_ids, data): fails on an index that is no row
IndexAdd(res, ids, data, i) ==
    IF i > Len(ids) THEN [kind |-> "returned", rows |-> res]
    ELSE IF ids[i] >= Len(res) THEN [kind |-> "IndexError", rows |-> <<>>]
    ELSE IndexAdd(AddAt(res, ids[i], data[i]), ids, data, i + 1)

\* res has one zero row per unique segment id
SegmentSum(data, ids) ==
    IndexAdd([r \in 1..Cardinality(UniqueIds(ids)) |-> 0], ids, data, 1)

SegmentSumCall ==
    /\ poolpc = "call"
    /\ poolRes' = SegmentSum(pool_data, pool_ids)
    /\ poolpc' = "done"
    /\ UNCHANGED <<pool_data, pool_ids, decodeVars, ffVars, sentVars, vocabVars, encVars>>

PoolInputs ==
    /\ \E n \in 0..MaxSubwords :
        /\ pool_data \in [1..n -> DataVals]
        /\ pool_ids \in [1..n -> 0..MaxLabel]
    /\ poolpc = "call"
    /\ poolRes = [kind |-> "none", rows |-> <<>>]

PoolIdle ==
    /\ pool_data = <<>>
    /\ pool_ids = <<>>
    /\ poolpc = "idle"
    /\ poolRes = [kind |-> "none", rows |-> <<>>]

(***************************************************************************)
(* predict_sentence, predict, predict_unimorph                             *)
(***************************************************************************)
Chars == {"a", "$"}
EOS == "$"
Words == UNION {[1..n -> Chars] : n \in 0..MaxWordLen}
Sentences == UNION {[1..n -> Words] : n \in 0..MaxWords}

\* what the lemma decoders and the tag decoders can answer for a word
LemmaChoices == {<<"b">>, <<"c">>}
TagChoices == {<<>>, <<"N", "SG">>}

\* override dictionaries; an empty one stands for None and for dict() alike,
\* "if surface2lemma:" treats both the same
DictKeys == {<<"a">>, <<"a", "a">>}
DictLemma == <<"c">>
Dicts == {{<<k, DictLemma>> : k \in K} : K \in SUBSET DictKeys}
HasKey(d, k) == \E e \in d : e[1] = k
Lookup(d, k) == (CHOOSE e \in d : e[1] = k)[2]

\* decoders as predict_unimorph constructs them (predict.py 289-324)
LemmaDecoder(use_transformer, charLemma) ==
    IF charLemma
    THEN [kind |-> "DecoderRNN", layer_size |-> IF use_transformer THEN 3 ELSE 2]
    ELSE [kind |-> "TransformerRNN", layer_size |-> 3]
MorphDecoder(use_transformer, use_rnn_morph) ==
    IF use_transformer /\ use_rnn_morph THEN [kind |-> "DecoderRNN", layer_size |-> 3]
    ELSE IF use_rnn_morph THEN [kind |-> "DecoderRNN", layer_size |-> 2]
    ELSE [kind |-> "DecoderFF", layer_size |-> 0]

\* predict(): TransformerRNN lemma decoder, DecoderRNN tag decoder, and
\* predict_sentence is called without use_rnn_morph and with dict()
PredictCfg(use_transformer) ==
    [use_transformer |-> use_transformer, use_rnn_morph |-> FALSE,
     lemma |-> [kind |-> "TransformerRNN", layer_size |-> 3],
     morph |-> [kind |-> "DecoderRNN", layer_size |-> IF use_transformer THEN 3 ELSE 2]]

\* predict_unimorph(): use_rnn_morph picks the tag decoder but is not passed on
UnimorphCfg(use_transformer, use_rnn_morph, charLemma) ==
    [use_transformer |-> use_transformer, use_rnn_morph |-> FALSE,
     lemma |-> LemmaDecoder(use_transformer, charLemma),
     morph |-> MorphDecoder(use_transformer, use_rnn_morph)]

\* a direct call of predict_sentence: every flag is the caller's
DirectCfg(use_transformer, use_rnn_morph, charLemma, rnnMorph) ==
    [use_transformer |-> use_transformer, use_rnn_morph |-> use_rnn_morph,
     lemma |-> LemmaDecoder(use_transformer, charLemma),
     morph |-> MorphDecoder(use_transformer, rnnMorph)]

\* surface[:-1]
DropLast(w) == SubSeq(w, 1, Len(w) - 1)

RECURSIVE RemoveEveryEos(_)
\* variant: every '$' at the end of the string is removed
RemoveEveryEos(w) ==
    IF w # <<>> /\ w[Len(w)] = EOS THEN RemoveEveryEos(DropLast(w)) ELSE w

\* REMOVE_EOS_REGEX.sub('', surface): one '$' at the end of the string
RemoveEos(w) == IF w # <<>> /\ w[Len(w)] = EOS THEN DropLast(w) ELSE w

\* wordpiece_tokenize: no piece for the empty string, one per character here
SubwordCount(text) == Len(text)

RECURSIVE WordIds(_, _)
\* word_ids += [word_id] * len(sub_tokens_ids), word_id counted from 0
WordIds(words, word_id) ==
    IF words = <<>> THEN <<>>
    ELSE [k \in 1..SubwordCount(DropLast(Head(words))) |-> word_id]
            \o WordIds(Tail(words), word_id + 1)

\* vectors stacked into the initial hidden state
StackRNN(withTransformer) == IF withTransformer THEN 3 ELSE 2
StackTransformerRNN(withTransformer) == IF withTransformer THEN 6 ELSE 4

\* the GRU accepts an initial state of num_layers * num_directions vectors
DecoderRNNRuns(dec, withTransformer) == StackRNN(withTransformer) = dec.layer_size
TransformerRNNRuns(dec, withTransformer) ==
    StackTransformerRNN(withTransformer) = 2 * dec.layer_size

Digits == <<"0", "1", "2", "3", "4", "5", "6", "7", "8", "9">>
RECURSIVE FormatInt(_)
\* "{}".format(n) for n >= 0
FormatInt(n) ==
    IF n < 10 THEN <<Digits[n + 1]>>
    ELSE FormatInt(n \div 10) \o <<Digits[(n % 10) + 1]>>

RECURSIVE Join(_, _)
\* sep.join(items), every item one token
Join(items, sep) ==
    IF items = <<>> THEN <<>>
    ELSE IF Len(items) = 1 THEN <<items[1]>>
    ELSE <<items[1], sep>> \o Join(Tail(items), sep)

\* variant: the index column counts from 0
FormatLineZeroBased(ix, surface, lemma, morph_feature) ==
    FormatInt(ix) \o <<"\t">> \o RemoveEos(surface) \o <<"\t">> \o lemma
        \o <<"\t", "_", "\t", "_", "\t">> \o morph_feature
        \o <<"\t", "_", "\t", "_", "\t", "_", "\t", "_", "\n">>

\* "{}\t{}\t{}\t_\t_\t{}\t_\t_\t_\t_\n".format(i + 1, surface without EOS, lemma, morph)
FormatLine(ix, surface, lemma, morph_feature) ==
    FormatInt(ix + 1) \o <<"\t">> \o RemoveEos(surface) \o <<"\t">> \o lemma
        \o <<"\t", "_", "\t", "_", "\t">> \o morph_feature
        \o <<"\t", "_", "\t", "_", "\t", "_", "\t", "_", "\n">>

RECURSIVE FormatLines(_, _, _, _)
FormatLines(ix, words, lems, morphs) ==
    IF words = <<>> \/ lems = <<>> \/ morphs = <<>> THEN <<>>
    ELSE FormatLine(ix, Head(words), Head(lems), Head(morphs))
            \o FormatLines(ix + 1, Tail(words), Tail(lems), Tail(morphs))

\* the surface the dictionary is asked for
LookupKey(dec, surface) == IF dec.kind = "TransformerRNN" THEN DropLast(surface) ELSE surface

\* one word of the override loop (predict.py 109-118)
Override(dec, d, surface, lemma) ==
    LET key == LookupKey(dec, surface)
    IN IF HasKey(d, key) /\ Lookup(d, key) # lemma THEN Lookup(d, key) ELSE lemma

\* f.write('\n') after f.write(conll_sentence)
SentenceSeparator == <<"\n">>

\* variant: the call does not tell the word it is made for
CallOfNoWord(callee, word) == [callee |-> callee, word |-> 0]

\* a call predict_sentence makes: who is called and for which word (1..n, 0
\* when the call is made for the whole sentence)
Call(callee, word) == [callee |-> callee, word |-> word]

Raise(e) ==
    /\ pc' = "raised"
    /\ error' = e

\* for sentence in data_surface_words: predict_sentence(sentence, ...)
CallPredictSentence ==
    /\ pc = "idle"
    /\ remaining > 0
    /\ \E sentence \in Sentences : surface_words' = sentence
    /\ remaining' = remaining - 1
    /\ pc' = "call"
    /\ word_ids' = <<>> /\ tRows' = 0 /\ wi' = 0
    /\ lemmas' = <<>> /\ decoded' = <<>> /\ morph_tags' = <<>> /\ morph_features' = <<>>
    /\ conll_sentence' = <<>>
    /\ call_log' = <<>>
    /\ UNCHANGED <<driver, cfg, surface2lemma, error, written, file,
                   decodeVars, ffVars, poolVars, vocabVars, encVars>>

\* if len(surface_words) == 0: return ""
ReturnEmpty ==
    /\ pc = "call"
    /\ Len(surface_words) = 0
    /\ conll_sentence' = <<>>
    /\ pc' = "returned"
    /\ UNCHANGED <<driver, cfg, surface2lemma, remaining, surface_words, word_ids, tRows, wi,
                   lemmas, decoded, morph_tags, morph_features, error, written, file, call_log,
                   decodeVars, ffVars, poolVars, vocabVars, encVars>>

\* predict.py 53-80: encode the surfaces, tokenize, run the encoder.  Without
\* use_transformer sub_tokens and word_ids stay Python lists and
\* sub_tokens.view(...) raises; with it segment_sum pools the subwords.
RunEncoder ==
    /\ pc = "call"
    /\ Len(surface_words) > 0
    /\ IF ~cfg.use_transformer
       THEN /\ Raise("AttributeError")
            /\ UNCHANGED <<word_ids, tRows, call_log>>
       ELSE LET ids == WordIds(surface_words, 0)
                pooled == SegmentSum([k \in 1..Len(ids) |-> 1], ids)
            IN /\ word_ids' = ids
               /\ call_log' = Append(call_log, Call("encoder", 0))
               /\ IF pooled.kind = "returned"
                  THEN tRows' = Len(pooled.rows) /\ pc' = "lemma" /\ error' = error
                  ELSE tRows' = 0 /\ Raise(pooled.kind)
    /\ wi' = 0
    /\ UNCHANGED <<driver, cfg, surface2lemma, remaining, surface_words,
                   lemmas, decoded, morph_tags, morph_features, conll_sentence,
                   written, file, decodeVars, ffVars, poolVars, vocabVars, encVars>>

\* TransformerRNN.predict, one call for the sentence: the stacked vectors must
\* agree in the number of words and in depth with the GRU
LemmaBatch ==
    /\ pc = "lemma"
    /\ cfg.lemma.kind = "TransformerRNN"
    /\ call_log' = Append(call_log, Call("decoder_lemma", 0))
    /\ IF tRows # Len(surface_words) \/ ~TransformerRNNRuns(cfg.lemma, cfg.use_transformer)
       THEN Raise("RuntimeError") /\ UNCHANGED <<lemmas, decoded>>
       ELSE /\ \E ls \in [1..Len(surface_words) -> LemmaChoices] :
                lemmas' = ls /\ decoded' = ls
            /\ pc' = "override"
            /\ error' = error
    /\ UNCHANGED <<driver, cfg, surface2lemma, remaining, surface_words, word_ids, tRows, wi,
                   morph_tags, morph_features, conll_sentence, written, file,
                   decodeVars, ffVars, poolVars, vocabVars, encVars>>

\* DecoderRNN.predict for word wi: transformer_output[0][wi] must exist
LemmaWord ==
    /\ pc = "lemma"
    /\ cfg.lemma.kind = "DecoderRNN"
    /\ wi < Len(surface_words)
    /\ IF cfg.use_transformer /\ wi >= tRows
       THEN Raise("IndexError") /\ UNCHANGED <<lemmas, decoded, wi, call_log>>
       ELSE IF ~DecoderRNNRuns(cfg.lemma, cfg.use_transformer)
       THEN /\ Raise("RuntimeError") /\ UNCHANGED <<lemmas, decoded, wi>>
            /\ call_log' = Append(call_log, Call("decoder_lemma", wi + 1))
       ELSE /\ call_log' = Append(call_log, Call("decoder_lemma", wi + 1))
            /\ \E lemma \in LemmaChoices :
                lemmas' = Append(lemmas, lemma) /\ decoded' = Append(decoded, lemma)
            /\ wi' = wi + 1
            /\ pc' = IF wi + 1 < Len(surface_words) THEN "lemma" ELSE "override"
            /\ error' = error
    /\ UNCHANGED <<driver, cfg, surface2lemma, remaining, surface_words, word_ids, tRows,
                   morph_tags, morph_features, conll_sentence, written, file,
                   decodeVars, ffVars, poolVars, vocabVars, encVars>>

\* if surface2lemma: ... lemmas = modified_lemmas
ApplyOverride ==
    /\ pc = "override"
    /\ lemmas' = IF surface2lemma = {} THEN lemmas
                 ELSE [k \in 1..Len(lemmas) |->
                        Override(cfg.lemma, surface2lemma, surface_words[k], lemmas[k])]
    /\ call_log' = IF surface2lemma = {} THEN call_log ELSE Append(call_log, Call("override", 0))
    /\ wi' = 0
    /\ pc' = "morph"
    /\ UNCHANGED <<driver, cfg, surface2lemma, remaining, surface_words, word_ids, tRows,
                   decoded, morph_tags, morph_features, conll_sentence, error, written, file,
                   decodeVars, ffVars, poolVars, vocabVars, encVars>>

\* how the tag decoder call of predict.py 125-138 ends for the decoder in use:
\* the use_rnn_morph branches unpack a pair and pass max_len, the others take
\* the returned value as the tag list
MorphCall ==
    IF cfg.use_rnn_morph
    THEN (IF cfg.morph.kind = "DecoderFF" THEN "TypeError"
          ELSE IF ~DecoderRNNRuns(cfg.morph, cfg.use_transformer) THEN "RuntimeError"
          ELSE "tags")
    ELSE (IF cfg.morph.kind = "DecoderFF" THEN "tags"
          ELSE IF ~DecoderRNNRuns(cfg.morph, cfg.use_transformer) THEN "RuntimeError"
          ELSE "TypeError")

\* tag decoder for word wi, then ';'.join
MorphWord ==
    /\ pc = "morph"
    /\ wi < Len(surface_words)
    /\ IF cfg.use_transformer /\ wi >= tRows
       THEN Raise("IndexError") /\ UNCHANGED <<morph_tags, morph_features, wi, call_log>>
       ELSE IF MorphCall # "tags"
       THEN /\ Raise(MorphCall) /\ UNCHANGED <<morph_tags, morph_features, wi>>
            /\ call_log' = Append(call_log, Call("decoder_morph_tags", wi + 1))
       ELSE /\ call_log' = Append(call_log, Call("decoder_morph_tags", wi + 1))
            /\ \E tags \in TagChoices :
                /\ morph_tags' = Append(morph_tags, tags)
                /\ morph_features' = Append(morph_features, Join(tags, ";"))
            /\ wi' = wi + 1
            /\ pc' = IF wi + 1 < Len(surface_words) THEN "morph" ELSE "format"
            /\ error' = error
    /\ UNCHANGED <<driver, cfg, surface2lemma, remaining, surface_words, word_ids, tRows,
                   lemmas, decoded, conll_sentence, written, file,
                   decodeVars, ffVars, poolVars, vocabVars, encVars>>

\* predict.py 142-147
FormatSentence ==
    /\ pc = "format"
    /\ conll_sentence' = <<"# Sentence", "\n">>
                            \o FormatLines(0, surface_words, lemmas, morph_features)
    /\ pc' = "returned"
    /\ UNCHANGED <<driver, cfg, surface2lemma, remaining, surface_words, word_ids, tRows, wi,
                   lemmas, decoded, morph_tags, morph_features, error, written, file, call_log,
                   decodeVars, ffVars, poolVars, vocabVars, encVars>>

\* f.write(conll_sentence); f.write('\n'), then the next sentence of the loop
WriteSentence ==
    /\ pc = "returned"
    /\ driver # "direct"
    /\ file' = file \o conll_sentence \o SentenceSeparator
    /\ written' = Append(written, conll_sentence)
    /\ pc' = IF remaining > 0 THEN "idle" ELSE "finished"
    /\ UNCHANGED <<driver, cfg, surface2lemma, remaining, surface_words, word_ids, tRows, wi,
                   lemmas, decoded, morph_tags, morph_features, conll_sentence, error, call_log,
                   decodeVars, ffVars, poolVars, vocabVars, encVars>>

SentInputs ==
    /\ \/ /\ driver = "direct"
          /\ \E ut, urm, cl, rm \in BOOLEAN : cfg = DirectCfg(ut, urm, cl, rm)
          /\ surface2lemma \in Dicts
          /\ remaining = 1
       \/ /\ driver = "predict"
          /\ \E ut \in BOOLEAN : cfg = PredictCfg(ut)
          /\ surface2lemma = {}
          /\ remaining \in 1..MaxSentences
       \/ /\ driver = "predict_unimorph"
          /\ \E ut, urm, cl \in BOOLEAN : cfg = UnimorphCfg(ut, urm, cl)
          /\ surface2lemma \in Dicts
          /\ remaining \in 1..MaxSentences
    /\ pc = "idle"
    /\ surface_words = <<>>
    /\ word_ids = <<>> /\ tRows = 0 /\ wi = 0
    /\ lemmas = <<>> /\ decoded = <<>> /\ morph_tags = <<>> /\ morph_features = <<>>
    /\ conll_sentence = <<>>
    /\ error = "none"
    /\ written = <<>>
    /\ file = <<>>
    /\ call_log = <<>>

SentIdle ==
    /\ SentInputs
    /\ driver = "direct"
    /\ cfg = DirectCfg(TRUE, FALSE, FALSE, FALSE)
    /\ surface2lemma = {}

NextSentence ==
    \/ CallPredictSentence \/ ReturnEmpty \/ RunEncoder \/ LemmaBatch \/ LemmaWord
    \/ ApplyOverride \/ MorphWord \/ FormatSentence \/ WriteSentence

(***************************************************************************)
(* ConllDataset: the four vocabularies, encode, __getitem__                *)
(***************************************************************************)
PAD_token == "<p>"
EOS_token == "<e>"
START_TAG == "<s>"

\* the vocabulary attributes, in the order __init__ sets them
VocabKinds == <<"surface_char2id", "lemma_char2id", "transformation2id", "morph_tag2id">>
KindSet == {VocabKinds[n] : n \in 1..Len(VocabKinds)}

\* words of the training files: surface, lemma, tags and edit labels
WordA == [surface |-> <<"a">>, lemma |-> <<"a">>,
          morph_tags |-> <<"N">>, transformation |-> <<"t1">>]
WordAB == [surface |-> <<"a", "b">>, lemma |-> <<"a">>,
           morph_tags |-> <<"N", "V">>, transformation |-> <<"t2", "t1">>]

\* a sentence object: four parallel lists, one entry per word
SentenceOf(ws) ==
    [surface_words   |-> [n \in 1..Len(ws) |-> ws[n].surface],
     lemmas          |-> [n \in 1..Len(ws) |-> ws[n].lemma],
     morph_tags      |-> [n \in 1..Len(ws) |-> ws[n].morph_tags],
     transformations |-> [n \in 1..Len(ws) |-> ws[n].transformation]]

CorpusSentences == {SentenceOf(<<WordA>>), SentenceOf(<<WordAB, WordA>>)}

\* read_dataset(conll_file_path): what a file can hold
Corpora == UNION {[1..n -> CorpusSentences] : n \in 0..MaxCorpusSentences}

\* if 0 < max_sentences < len(self.sentences): self.sentences[:max_sentences]
Truncate(sentences, max_sentences) ==
    IF 0 < max_sentences /\ max_sentences < Len(sentences)
    THEN SubSeq(sentences, 1, max_sentences) ELSE sentences

RECURSIVE Chain(_)
\* chain(*lists)
Chain(lists) == IF lists = <<>> THEN <<>> ELSE Head(lists) \o Chain(Tail(lists))

\* set(...) of a list
SetOf(list) == {list[n] : n \in 1..Len(list)}

\* the orders in which a "for x in set" loop can visit the set
Orders(S) ==
    {o \in [1..Cardinality(S) -> S] : \A m, n \in 1..Cardinality(S) : m # n => o[m] # o[n]}

\* len(d)
Size(d) == Cardinality(DOMAIN d)

\* d[key] = len(d): the length is read before the key is stored
PutLen(d, key) ==
    [x \in (DOMAIN d) \cup {key} |-> IF x = key THEN Size(d) ELSE d[x]]

EmptyDict == [x \in {} |-> 0]

\* variant: every vocabulary starts with PAD and EOS only
DefaultVocabNoStart(kind) ==
    IF kind = "transformation2id" THEN PutLen(EmptyDict, PAD_token)
    ELSE PutLen(PutLen(EmptyDict, PAD_token), EOS_token)

\* the dict __init__ makes when the argument is None (or empty)
DefaultVocab(kind) ==
    IF kind = "surface_char2id"
    THEN PutLen(PutLen(EmptyDict, PAD_token), EOS_token)
    ELSE IF kind = "transformation2id"
    THEN PutLen(EmptyDict, PAD_token)
    ELSE PutLen(PutLen(PutLen(EmptyDict, PAD_token), EOS_token), START_TAG)

RECURSIVE AddAll(_, _)
\* for ch in unique: d[ch] = len(d)
AddAll(d, order) ==
    IF order = <<>> THEN d ELSE AddAll(PutLen(d, Head(order)), Tail(order))

RECURSIVE AddNew(_, _)
\* for _t in ...: if _t not in d: d[_t] = len(d)
AddNew(d, list) ==
    IF list = <<>> THEN d
    ELSE AddNew(IF Head(list) \in DOMAIN d THEN d ELSE PutLen(d, Head(list)), Tail(list))

\* the symbols create_vocabs collects from the sentences
UniqueSurfaceChars(sentences) ==
    SetOf(Chain(Chain([n \in 1..Len(sentences) |-> sentences[n].surface_words])))
UniqueLemmaChars(sentences) ==
    SetOf(Chain(Chain([n \in 1..Len(sentences) |-> sentences[n].lemmas])))
UniqueTags(sentences) ==
    SetOf(Chain(Chain([n \in 1..Len(sentences) |-> sentences[n].morph_tags])))
TransformationLabels(sentences) ==
    Chain(Chain([n \in 1..Len(sentences) |-> sentences[n].transformations]))

\* variant: the vocabularies are updated in every mode
UpdatesVocabsAlways(mode) == TRUE

\* if mode == 'train': self.create_vocabs()
UpdatesVocabs(mode) == mode = "train"

\* create_vocabs on the dicts the dataset refers to
CreateVocabs(h, refs, sentences, so, lo, to) ==
    LET h1 == [h  EXCEPT ![refs["surface_char2id"]] = AddAll(@, so)]
        h2 == [h1 EXCEPT ![refs["lemma_char2id"]] = AddAll(@, lo)]
        h3 == [h2 EXCEPT ![refs["transformation2id"]] =
                            AddNew(@, TransformationLabels(sentences))]
    IN [h3 EXCEPT ![refs["morph_tag2id"]] = AddAll(@, to)]

\* the vocabulary arguments a caller can pass: None (0), or the vocabulary of
\* the same kind that an earlier dataset holds (never empty: it holds PAD);
\* a caller passes none of them, one of them or all four
Supplies ==
    {sup \in [KindSet -> 0..Len(heap)] :
        /\ \A kind \in KindSet :
            sup[kind] # 0 => \E n \in 1..Len(datasets) : datasets[n][kind] = sup[kind]
        /\ Cardinality({kind \in KindSet : sup[kind] # 0}) \in {0, 1, Len(VocabKinds)}}

\* number of dicts __init__ creates for the kinds before position n
CreatedBefore(sup, n) == Cardinality({m \in 1..(n - 1) : sup[VocabKinds[m]] = 0})

\* "if surface_char2id: self.surface_char2id = surface_char2id else: dict()"
RefsFor(sup) ==
    [kind \in KindSet |->
        IF sup[kind] # 0 THEN sup[kind]
        ELSE LET n == CHOOSE m \in 1..Len(VocabKinds) : VocabKinds[m] = kind
             IN Len(heap) + CreatedBefore(sup, n) + 1]

\* the heap after lines 35-61: the dicts that were created, in order
HeapWithDefaults(sup) ==
    LET created == SelectSeq(VocabKinds, LAMBDA kind : sup[kind] = 0)
    IN heap \o [n \in 1..Len(created) |-> DefaultVocab(created[n])]

\* transformer_model_name: set or None, the same for the datasets of one run
TransformerNames ==
    IF datasets = <<>> THEN BOOLEAN ELSE {datasets[1].transformer_model_name}

\* ConllDataset.__init__
Construct ==
    /\ Len(datasets) < MaxDatasets
    /\ \E corpus \in Corpora, max_sentences \in 0..MaxCorpusSentences,
          mode \in {"train", "test"}, withTransformer \in TransformerNames, sup \in Supplies :
        LET sentences == Truncate(corpus, max_sentences)
            refs == RefsFor(sup)
            h == HeapWithDefaults(sup)
        IN /\ \E so \in Orders(UniqueSurfaceChars(sentences)),
                 lo \in Orders(UniqueLemmaChars(sentences)),
                 to \in Orders(UniqueTags(sentences)) :
                heap' = IF UpdatesVocabs(mode)
                        THEN CreateVocabs(h, refs, sentences, so, lo, to) ELSE h
           /\ datasets' = Append(datasets,
                [surface_char2id |-> refs["surface_char2id"],
                 lemma_char2id |-> refs["lemma_char2id"],
                 transformation2id |-> refs["transformation2id"],
                 morph_tag2id |-> refs["morph_tag2id"],
                 sentences |-> sentences,
                 transformer_model_name |-> withTransformer,
                 mode |-> mode])
           /\ supplied' = Append(supplied, sup)
           /\ frozen' = Append(frozen, heap)
    /\ encodeCalls' = <<>>
    /\ item' = [op |-> "__init__"]
    /\ UNCHANGED <<decodeVars, ffVars, poolVars, sentVars, encVars>>

\* variant: a symbol that is no key is encoded as PAD
EncodeTokenAsPad(vocab, token) ==
    IF token \in DOMAIN vocab THEN <<vocab[token]>> ELSE <<0>>

\* if token in vocab: res.append(vocab[token])
EncodeToken(vocab, token) ==
    IF token \in DOMAIN vocab THEN <<vocab[token]>> ELSE <<>>

RECURSIVE EncodeLoop(_, _)
\* for token in seq
EncodeLoop(seq, vocab) ==
    IF seq = <<>> THEN <<>>
    ELSE EncodeToken(vocab, Head(seq)) \o EncodeLoop(Tail(seq), vocab)

\* ConllDataset.encode; vocab[START_TAG] and vocab[EOS_token] raise when missing
Encode(seq, vocab, add_start_tag, add_end_tag) ==
    IF (add_start_tag /\ START_TAG \notin DOMAIN vocab)
            \/ (add_end_tag /\ EOS_token \notin DOMAIN vocab)
    THEN [kind |-> "KeyError", ids |-> <<>>]
    ELSE [kind |-> "returned",
          ids |-> (IF add_start_tag THEN <<vocab[START_TAG]>> ELSE <<>>)
                    \o EncodeLoop(seq, vocab)
                    \o (IF add_end_tag THEN <<vocab[EOS_token]>> ELSE <<>>)]

\* one call of encode on the dict ref refers to, as the caller sees it
EncodeCall(seq, ref, add_start_tag, add_end_tag) ==
    [seq |-> seq, vocab |-> ref,
     add_start_tag |-> add_start_tag, add_end_tag |-> add_end_tag,
     res |-> Encode(seq, heap[ref], add_start_tag, add_end_tag)]

\* max(...) of a non-empty set of numbers
Max(S) == CHOOSE v \in S : \A u \in S : u <= v

\* row[:len(ids)] = ids on a row of zeros: the shapes must agree
RowFits(ids, width) == Len(ids) <= width
PadRow(ids, width) == [c \in 1..width |-> IF c <= Len(ids) THEN ids[c] ELSE PAD]

\* the calls up to the first one that raised
Made(calls) ==
    LET bad == {n \in 1..Len(calls) : calls[n].res.kind # "returned"}
    IN IF bad = {} THEN calls ELSE SubSeq(calls, 1, Max({0 - n : n \in bad}) * (0 - 1))

\* how an operation that filled its rows from these calls ends
Outcome(calls, widths) ==
    IF \E n \in 1..Len(calls) : calls[n].res.kind # "returned" THEN "KeyError"
    ELSE IF \E n \in 1..Len(calls) : ~RowFits(calls[n].res.ids, widths[n]) THEN "RuntimeError"
    ELSE "returned"

\* one subword per character of the text (none for the empty string)
SubTokens(words) == Chain([n \in 1..Len(words) |-> DropLast(words[n])])

\* the dataset the operations are called on: the one constructed last
Newest == {Len(datasets)} \ {0}

\* ConllDataset.__getitem__
GetItem ==
    /\ \E d \in Newest : \E index \in 1..Len(datasets[d].sentences) :
        LET ds == datasets[d]
            sentence == ds.sentences[index]
            n == Len(sentence.surface_words)
            max_token_len == Max({Len(sentence.surface_words[w]) + 1 : w \in 1..n})
            max_lemma_len == Max({Len(sentence.lemmas[w]) + 2 : w \in 1..n})
            max_morph_tags_len == Max({Len(sentence.morph_tags[w]) + 2 : w \in 1..n})
            calls ==
                [w \in 1..n |->
                    EncodeCall(sentence.surface_words[w], ds.surface_char2id, FALSE, TRUE)]
                \o [w \in 1..n |->
                    EncodeCall(sentence.lemmas[w], ds.lemma_char2id, TRUE, TRUE)]
                \o [w \in 1..n |->
                    EncodeCall(sentence.morph_tags[w], ds.morph_tag2id, TRUE, TRUE)]
                \o [w \in 1..n |->
                    EncodeCall(sentence.transformations[w], ds.transformation2id, FALSE, FALSE)]
            widths == [c \in 1..(4 * n) |->
                        IF c <= n THEN max_token_len
                        ELSE IF c <= 2 * n THEN max_lemma_len
                        ELSE IF c <= 3 * n THEN max_morph_tags_len
                        ELSE max_token_len]
            kind == Outcome(calls, widths)
        IN /\ encodeCalls' = Made(calls)
           /\ item' =
                IF kind # "returned" THEN [op |-> "__getitem__", dataset |-> d, kind |-> kind]
                ELSE [op |-> "__getitem__", dataset |-> d, kind |-> kind,
                      encoded_surfaces_pretrained |->
                          IF ds.transformer_model_name
                          THEN <<SubTokens(sentence.surface_words),
                                 WordIds(sentence.surface_words, 0)>>
                          ELSE <<>>,
                      rows |-> [c \in 1..(4 * n) |-> PadRow(calls[c].res.ids, widths[c])]]
    /\ UNCHANGED <<heap, datasets, supplied, frozen, decodeVars, ffVars, poolVars, sentVars,
                   encVars>>

\* words handed to predict_sentence: known and unknown characters, empty words
QueryWords == {<<>>, <<"z", "z", "a">>}
QuerySentences == UNION {[1..n -> QueryWords] : n \in 1..MaxWords}

\* predict_sentence, lines 53-61: the rows of encoded_surfaces
EncodeSurfaces ==
    /\ \E d \in Newest : \E words \in QuerySentences, use_char_lstm \in BOOLEAN :
        LET ds == datasets[d]
            n == Len(words)
            max_token_len == Max({Len(words[w]) : w \in 1..n}) + 1
            calls == IF use_char_lstm
                     THEN [w \in 1..n |-> EncodeCall(words[w], ds.surface_char2id, FALSE, TRUE)]
                     ELSE <<>>
            widths == [c \in 1..Len(calls) |-> max_token_len]
            kind == Outcome(calls, widths)
        IN /\ encodeCalls' = Made(calls)
           /\ item' =
                IF kind # "returned"
                THEN [op |-> "predict_sentence", dataset |-> d, kind |-> kind]
                ELSE [op |-> "predict_sentence", dataset |-> d, kind |-> kind,
                      surfaces |-> words,
                      rows |-> [w \in 1..n |->
                                  PadRow(IF use_char_lstm THEN calls[w].res.ids ELSE <<>>,
                                         max_token_len)]]
    /\ UNCHANGED <<heap, datasets, supplied, frozen, decodeVars, ffVars, poolVars, sentVars,
                   encVars>>

\* torch.argmax(scores, 2): one label per row and position of x; the label is
\* what the network answers there, named by the place and the input id it
\* was computed at
ArgMaxLabels(x) ==
    [w \in 1..Len(x) |->
        [k \in 1..Len(x[w]) |-> [row |-> w, position |-> k, input |-> x[w][k]]]]

\* zip(a, b) stops at the shorter list
ZipLen(a, b) == IF Len(a) < Len(b) THEN Len(a) ELSE Len(b)

\* TransformerRNN.predict on the rows predict_sentence encoded: the calls of
\* inverse_transformation(surface, prediction[:len(surface)]), one per pair
\* of zip(surfaces, predictions); each call returns one lemma
TransformerRNNPredict ==
    /\ item.op = "predict_sentence"
    /\ item.kind = "returned"
    /\ LET surfaces == item.surfaces
           arg_max == ArgMaxLabels(item.rows)
       IN item' = [op |-> "TransformerRNN.predict", dataset |-> item.dataset,
                   kind |-> "returned", surfaces |-> surfaces, rows |-> item.rows,
                   predictions |->
                       [w \in 1..ZipLen(surfaces, arg_max) |->
                           [surface |-> surfaces[w],
                            prediction |-> Take(arg_max[w], Len(surfaces[w]))]]]
    /\ UNCHANGED <<heap, datasets, supplied, frozen, encodeCalls, decodeVars, ffVars,
                   poolVars, sentVars, encVars>>

VocabInputs ==
    /\ heap = <<>>
    /\ datasets = <<>>
    /\ supplied = <<>>
    /\ frozen = <<>>
    /\ encodeCalls = <<>>
    /\ item = [op |-> "none"]

VocabIdle == VocabInputs

NextVocab == Construct \/ GetItem \/ EncodeSurfaces \/ TransformerRNNPredict

(***************************************************************************)
(* EncoderRNN.forward, called by several sentence predictions on one       *)
(* encoder object                                                          *)
(***************************************************************************)
Callers == 1..NumCallers

\* x2.size(0) and x2.size(1): batch dimension and number of words
Shapes == [batch : 1..MaxBatch, words : 1..MaxWords]

\* self.char_gru_hidden = None (no tensor, written by no call)
NoHidden == [batch |-> 0, call |-> 0]

\* init_char_hidden(batch_size): zeros(1, batch_size, hidden_size1), made by call p
init_char_hidden(batch_size, p) == [batch |-> batch_size, call |-> p]

\* init_context_hidden(): zeros(2, 1, hidden_size2), made by call p
init_context_hidden(p) == [batch |-> 1, call |-> p]

\* variant: the batch size is not tested on entry
AfterEntryUnchecked(batch) == "init_char"

\* assert x2.size(0) == 1, the first statement of forward
AfterEntry(batch) == IF batch = 1 THEN "init_char" ELSE "raised"

\* line 98
EncAssert(p) ==
    /\ epc[p] = "call"
    /\ epc' = [epc EXCEPT ![p] = AfterEntry(x2[p].batch)]
    /\ eresult' = [eresult EXCEPT ![p] =
                    IF AfterEntry(x2[p].batch) = "raised"
                    THEN [kind |-> "AssertionError", words |-> 0] ELSE @]
    /\ UNCHANGED <<x2, char_gru_hidden, word_gru_hidden>>
    /\ UNCHANGED <<decodeVars, ffVars, poolVars, sentVars, vocabVars>>

\* line 100: self.char_gru_hidden = self.init_char_hidden(x2.size(1))
EncInitCharHidden(p) ==
    /\ epc[p] = "init_char"
    /\ char_gru_hidden' = init_char_hidden(x2[p].words, p)
    /\ epc' = [epc EXCEPT ![p] = "init_word"]
    /\ UNCHANGED <<x2, word_gru_hidden, eresult>>
    /\ UNCHANGED <<decodeVars, ffVars, poolVars, sentVars, vocabVars>>

\* line 101: self.word_gru_hidden = self.init_context_hidden()
EncInitWordHidden(p) ==
    /\ epc[p] = "init_word"
    /\ word_gru_hidden' = init_context_hidden(p)
    /\ epc' = [epc EXCEPT ![p] = "char_gru"]
    /\ UNCHANGED <<x2, char_gru_hidden, eresult>>
    /\ UNCHANGED <<decodeVars, ffVars, poolVars, sentVars, vocabVars>>

\* lines 104-109: the embeddings are viewed without the batch dimension (which
\* must be 1 for that) and the GRU takes self.char_gru_hidden as its initial
\* state, one row per word of its input
EncCharGru(p) ==
    /\ epc[p] = "char_gru"
    /\ IF x2[p].batch # 1 \/ char_gru_hidden.batch # x2[p].words
       THEN /\ epc' = [epc EXCEPT ![p] = "raised"]
            /\ eresult' = [eresult EXCEPT ![p] = [kind |-> "RuntimeError", words |-> 0]]
       ELSE /\ epc' = [epc EXCEPT ![p] = "word_gru"]
            /\ eresult' = eresult
    /\ UNCHANGED <<x2, char_gru_hidden, word_gru_hidden>>
    /\ UNCHANGED <<decodeVars, ffVars, poolVars, sentVars, vocabVars>>

\* lines 112-124: the sentence is one sequence, self.word_gru_hidden has one
\* row; then the transformer branch and the return of one row per word
EncWordGru(p) ==
    /\ epc[p] = "word_gru"
    /\ IF word_gru_hidden.batch # 1
       THEN /\ epc' = [epc EXCEPT ![p] = "raised"]
            /\ eresult' = [eresult EXCEPT ![p] = [kind |-> "RuntimeError", words |-> 0]]
       ELSE /\ epc' = [epc EXCEPT ![p] = "done"]
            /\ eresult' = [eresult EXCEPT ![p] =
                            [kind |-> "returned", words |-> x2[p].words]]
    /\ UNCHANGED <<x2, char_gru_hidden, word_gru_hidden>>
    /\ UNCHANGED <<decodeVars, ffVars, poolVars, sentVars, vocabVars>>

EncInputs ==
    /\ x2 \in [Callers -> Shapes]
    /\ epc = [p \in Callers |-> "call"]
    /\ eresult = [p \in Callers |-> [kind |-> "none", words |-> 0]]
    /\ char_gru_hidden = NoHidden
    /\ word_gru_hidden = NoHidden

EncIdle ==
    /\ x2 = [p \in Callers |-> [batch |-> 1, words |-> 1]]
    /\ epc = [p \in Callers |-> "idle"]
    /\ eresult = [p \in Callers |-> [kind |-> "none", words |-> 0]]
    /\ char_gru_hidden = NoHidden
    /\ word_gru_hidden = NoHidden

NextEnc ==
    \E p \in Callers :
        \/ EncAssert(p) \/ EncInitCharHidden(p) \/ EncInitWordHidden(p)
        \/ EncCharGru(p) \/ EncWordGru(p)

(***************************************************************************)
(* Specifications                                                          *)
(***************************************************************************)
InitDecode == DecodeInputs /\ FFIdle /\ PoolIdle /\ SentIdle /\ VocabIdle /\ EncIdle
SpecDecode == InitDecode /\ [][NextDecode]_vars

InitFF == DecodeIdle /\ FFInputs /\ PoolIdle /\ SentIdle /\ VocabIdle /\ EncIdle
NextFF == FFPredict \/ FFForward
SpecFF == InitFF /\ [][NextFF]_vars

InitPool == DecodeIdle /\ FFIdle /\ PoolInputs /\ SentIdle /\ VocabIdle /\ EncIdle
NextPool == SegmentSumCall
SpecPool == InitPool /\ [][NextPool]_vars

InitVocab == DecodeIdle /\ FFIdle /\ PoolIdle /\ SentIdle /\ VocabInputs /\ EncIdle
SpecVocab == InitVocab /\ [][NextVocab]_vars

InitEnc == DecodeIdle /\ FFIdle /\ PoolIdle /\ SentIdle /\ VocabIdle /\ EncInputs
SpecEnc == InitEnc /\ [][NextEnc]_vars

Init == DecodeIdle /\ FFIdle /\ PoolIdle /\ SentInputs /\ VocabIdle /\ EncIdle
Next == NextSentence
Spec == Init /\ [][Next]_vars

(***************************************************************************)
(* Claims about the decoders                                               *)
(***************************************************************************)
\* the symbols fed back by the greedy loop so far
GreedyFed == SubSeq(am, 1, di)

\* C4: the list DecoderRNN.predict returns holds no symbol with id <= 2
\* (PAD, END, START) and has at most max_len elements.
C4_GreedyOutputClean ==
    /\ \A i \in 1..Len(predictions) : predictions[i] > 2
    /\ Len(predictions) <= max_len

\* C4 case: greedy decoding finished with output although PAD or START was an arg-max
C4_Witness ==
    /\ gpc = "done"
    /\ predictions # <<>>
    /\ \E i \in 1..Len(GreedyFed) : GreedyFed[i] \in {PAD, START}

\* C5 (as claimed): with beam width 1, predict_beam returns the symbol
\* sequence that greedy predict returns on the same scoring function.
C5_BeamOneEqualsGreedy ==
    (beam_size = 1 /\ bpc = "done" /\ gpc = "done")
        => (bresult.kind = "returned" /\ bresult.prediction = predictions)

\* C6: when the round loop ends with no completed candidate, predict_beam
\* returns no string at all: the call ends in the IndexError of indexing the
\* empty completed list; and a string it does return is a completed
\* candidate's partial output.
C6_NoCompletionIsAnError ==
    bpc = "done" =>
        /\ (completed_states = <<>> <=> bresult.kind = "IndexError")
        /\ (bresult.kind = "returned" =>
                \E i \in 1..Len(completed_states) :
                    completed_states[i].prediction = bresult.prediction)

\* C6 case: every candidate reached the length cap, none emitted END
C6_Witness ==
    /\ bpc = "done"
    /\ completed_states = <<>>
    /\ rounds > 1
    /\ bresult.kind = "IndexError"

\* a natural number that every step of predict_beam decreases
BeamMeasure ==
    (surface_len + 3 - rounds) * (beam_size + 1) + Len(states)
        + (IF bpc = "inner" THEN 2 ELSE IF bpc = "return" THEN 1 ELSE 0)

\* C7: predict_beam terminates: the outer loop starts at most surface_len + 3
\* iterations, at most surface_len + 2 of them advance a candidate, the loop
\* is left only when no non-completed candidate remains, and every step of
\* the search decreases a natural-number measure (so no run is infinite).
C7_BeamTerminates ==
    /\ [](/\ rounds <= surface_len + 3
          /\ expansions <= surface_len + 2
          /\ BeamMeasure >= 0
          /\ (bpc \in {"return", "done"} => states = <<>> /\ new_states = <<>>))
    /\ [][bpc # "done" => BeamMeasure' < BeamMeasure]_vars

\* C7 case: a search of width 2 that used every allowed iteration
C7_Witness ==
    /\ bpc = "done"
    /\ beam_size >= 2
    /\ rounds = surface_len + 3
    /\ expansions = surface_len + 2

\* C8 (as claimed): the prediction predict_beam returns contains neither
\* PAD nor START.
C8_BeamNoPadStart ==
    bresult.kind = "returned" =>
        \A i \in 1..Len(bresult.prediction) : bresult.prediction[i] \notin {PAD, START}

Count(seq, x) == Cardinality({i \in 1..Len(seq) : seq[i] = x})
IsPrefix(a, b) == Len(a) <= Len(b) /\ a = SubSeq(b, 1, Len(a))
Suffix(a, b) == SubSeq(b, Len(a) + 1, Len(b))
NotBelow(x, y) == ~RatLess(x.normalized_score, y.normalized_score)

\* a step that pops a state: each child it appends extends the popped state;
\* the ones that emitted END go to completed_states, all others to new_states
PopSplitsChildren ==
    LET state == Head(states)
        kept  == Suffix(new_states, new_states')
        ended == Suffix(completed_states, completed_states')
    IN /\ states' = Tail(states)
       /\ IsPrefix(new_states, new_states')
       /\ IsPrefix(completed_states, completed_states')
       /\ Len(kept) + Len(ended) \in {0, beam_size}
       /\ \A i \in 1..Len(kept) :
            /\ kept[i].last_output # END
            /\ kept[i].prediction = Append(state.prediction, kept[i].last_output)
       /\ \A i \in 1..Len(ended) :
            /\ ended[i].last_output = END
            /\ ended[i].prediction = state.prediction

\* the step that ends a round: states' are the beam_size best of new_states
SelectKeepsBest ==
    /\ Len(states') = (IF Len(new_states) < beam_size THEN Len(new_states) ELSE beam_size)
    /\ \A i \in 1..Len(states') : Count(states', states'[i]) <= Count(new_states, states'[i])
    /\ \A i \in 1..Len(new_states) :
          \/ Count(states', new_states[i]) = Count(new_states, new_states[i])
          \/ \A j \in 1..Len(states') : NotBelow(states'[j], new_states[i])
    /\ \A i, j \in 1..Len(states') : i < j => NotBelow(states'[i], states'[j])
    /\ completed_states' = completed_states

\* C21: a round of predict_beam starts with at most beam_size non-completed
\* candidates; the round's children that emitted END are appended to
\* completed_states and all others to new_states; at the end of the round the
\* candidates kept are the beam_size children of new_states with the highest
\* normalized score; a completed candidate is never put back among the
\* candidates to expand and never leaves completed_states.
C21_BeamRetention ==
    /\ [](/\ Len(states) <= beam_size
          /\ \A i \in 1..Len(states) : states[i].last_output # END
          /\ \A i \in 1..Len(new_states) : new_states[i].last_output # END
          /\ \A i \in 1..Len(completed_states) : completed_states[i].last_output = END)
    /\ [][/\ IsPrefix(completed_states, completed_states')
          /\ (bpc = "inner" /\ states # <<>>) => PopSplitsChildren
          /\ (bpc = "inner" /\ states = <<>>) => SelectKeepsBest]_vars

\* C21 case: a round of width 2 produced four children, one of them completed,
\* and the selection dropped one of the three others
C21_Witness ==
    /\ bpc = "inner"
    /\ beam_size = 2
    /\ rounds = 3
    /\ new_states = <<>>
    /\ Len(states) = 2
    /\ Len(completed_states) = 1
    /\ Len(completed_states[1].prediction) = 1

\* C22: when at least one candidate completed, predict_beam returns the
\* partial output of a candidate of completed_states (which holds the
\* candidates completed in every round) whose normalized score no other
\* completed candidate exceeds.
C22_BeamReturnsBestCompleted ==
    (bpc = "done" /\ completed_states # <<>>) =>
        /\ bresult.kind = "returned"
        /\ \E i \in 1..Len(completed_states) :
            /\ completed_states[i].prediction = bresult.prediction
            /\ \A j \in 1..Len(completed_states) :
                NotBelow(completed_states[i], completed_states[j])

\* C22 case: candidates completed in two rounds, the first appended is not
\* the best, and the best one completed before the last one did
C22_Witness ==
    /\ bpc = "done"
    /\ bresult.kind = "returned"
    /\ Len(completed_states) >= 3
    /\ \E i \in 2..Len(completed_states) :
        /\ completed_states[i].prediction = bresult.prediction
        /\ \A j \in 1..Len(completed_states) :
            j # i => RatLess(completed_states[j].normalized_score,
                             completed_states[i].normalized_score)
        /\ Len(completed_states[i].prediction)
             < Len(completed_states[Len(completed_states)].prediction)

\* C26: the prediction predict_beam returns for surface length surface_len
\* holds at most surface_len + 1 symbols, whether a symbol is written with one
\* character or with more; a candidate is advanced only while its partial
\* output holds fewer than surface_len + 2 symbols.
C26_BeamLengthBound ==
    /\ [](bresult.kind = "returned" => Len(bresult.prediction) <= surface_len + 1)
    /\ [][(bpc = "inner" /\ states # <<>>
            /\ (new_states' # new_states \/ completed_states' # completed_states))
          => Len(Head(states).prediction) < surface_len + 2]_vars

\* C26 case: a returned prediction of exactly surface_len + 1 symbols
C26_Witness ==
    /\ bresult.kind = "returned"
    /\ surface_len >= 1
    /\ Len(bresult.prediction) = surface_len + 1

(***************************************************************************)
(* Claims about DecoderFF.predict and segment_sum                          *)
(***************************************************************************)
\* the ids a sequence holds
Elems(seq) == {seq[i] : i \in 1..Len(seq)}

\* C9: DecoderFF.predict returns exactly the tags with id > 2 whose sigmoid
\* score is strictly above 0.5, each once, in id order; ids 0, 1, 2 never.
C9_FFExactlyThresholded ==
    ffpc = "done" =>
        /\ Elems(ffOut) = {ix \in TagIds : ix > 2 /\ ffScores[ix] > Threshold}
        /\ \A i, j \in 1..Len(ffOut) : i < j => ffOut[i] < ffOut[j]
        /\ \A i \in 1..Len(ffOut) : ffOut[i] \notin {PAD, END, START}

\* C9 case: a reserved id scores above 0.5, a tag scores exactly 0.5, and one
\* tag is returned
C9_Witness ==
    /\ ffpc = "done"
    /\ \E ix \in {PAD, END, START} : ffScores[ix] > Threshold
    /\ \E ix \in TagIds : ix > 2 /\ ffScores[ix] = Threshold
    /\ Len(ffOut) = 1

RECURSIVE SumWhere(_, _, _)
\* the sum of the embeddings of the subwords labelled l
SumWhere(data, ids, l) ==
    IF data = <<>> THEN 0
    ELSE (IF Head(ids) = l THEN Head(data) ELSE 0) + SumWhere(Tail(data), Tail(ids), l)

\* position of label l among the distinct labels in ascending order
Rank(ids, l) == Cardinality({u \in UniqueIds(ids) : u < l}) + 1

\* one row per distinct label, ascending, each the sum of its subwords
PooledPerLabel ==
    /\ poolRes.kind = "returned"
    /\ Len(poolRes.rows) = Cardinality(UniqueIds(pool_ids))
    /\ \A l \in UniqueIds(pool_ids) :
            poolRes.rows[Rank(pool_ids, l)] = SumWhere(pool_data, pool_ids, l)

\* C28 (as claimed): with and without transformer context, DecoderFF.forward
\* and DecoderFF.predict hand the same components, in the same order and of
\* the same width, to the classifier path (self.W, relu, classifier): with
\* the transformer the transformer context and then the projected context
\* vector.
C28_ForwardMatchesPredict ==
    (ffpc = "done" /\ fwdpc = "done") =>
        /\ ff_outputs.kind = "returned"
        /\ ff_outputs.input = ff_hidden
        /\ with_transformer =>
                ff_hidden = <<Part("transformer_context", hidden_size),
                              Part("context_vector", hidden_size)>>

\* C10 (as claimed): for every embedding sequence and label sequence,
\* segment_sum returns one row per distinct label, in ascending label order,
\* each row the sum of the embeddings carrying that label.
C10_SegmentSumAnyLabels == poolpc = "done" => PooledPerLabel

\* the labels are exactly 0..k-1 for some k: every word has a subword
Contiguous(ids) == UniqueIds(ids) = 0 .. (Cardinality(UniqueIds(ids)) - 1)

\* Supplement to C10: when the distinct labels are exactly 0..k-1, segment_sum
\* returns k rows, row j the sum of the embeddings labelled j; when a label
\* has a gap below it, the call fails with an index error.
SegmentSumOnContiguousLabels ==
    poolpc = "done" =>
        IF Contiguous(pool_ids) THEN PooledPerLabel ELSE poolRes.kind = "IndexError"

(***************************************************************************)
(* Claims about predict_sentence and its callers                           *)
(***************************************************************************)
RECURSIVE Split(_, _)
\* str.split(sep) of a string given as its characters: the piece before the
\* first separator, then the pieces of what follows it
Split(str, sep) ==
    LET seps == {p \in 1..Len(str) : str[p] = sep}
    IN IF seps = {} THEN <<str>>
       ELSE LET first == CHOOSE p \in seps : \A q \in seps : p <= q
            IN <<SubSeq(str, 1, first - 1)>> \o Split(SubSeq(str, first + 1, Len(str)), sep)

\* the lines of a returned sentence, and the fields of its k-th word line
LinesOf(str) == Split(str, "\n")
FieldsOf(str, k) == Split(LinesOf(str)[k + 1], "\t")

\* a word line: 10 fields, index k, surface (end marker removed), lemma,
\* '_', '_', tags joined by ';', and four more '_'
WordLineOk(line, k) ==
    LET f == Split(line, "\t")
    IN /\ Len(f) = 10
       /\ f[1] = FormatInt(k)
       /\ f[2] = RemoveEos(surface_words[k])
       /\ f[3] = lemmas[k]
       /\ \A c \in {4, 5, 7, 8, 9, 10} : f[c] = <<"_">>
       /\ Split(f[6], ";") = IF morph_tags[k] = <<>> THEN << <<>> >>
                             ELSE [t \in 1..Len(morph_tags[k]) |-> <<morph_tags[k][t]>>]

\* "# Sentence", then exactly one well-formed line per word
SentenceOk(str) ==
    LET lines == LinesOf(str)
    IN /\ Len(lines) = Len(surface_words) + 2
       /\ lines[1] = <<"# Sentence">>
       /\ lines[Len(surface_words) + 2] = <<>>
       /\ \A k \in 1..Len(surface_words) : WordLineOk(lines[k + 1], k)

RECURSIVE WithBlankLines(_)
\* every returned sentence followed by one line break
WithBlankLines(strs) ==
    IF strs = <<>> THEN <<>> ELSE Head(strs) \o <<"\n">> \o WithBlankLines(Tail(strs))

\* C1 (as claimed): without the transformer and with the character decoder,
\* predict_sentence on n >= 1 non-empty words does not raise, and what it
\* returns has n word lines indexed 1..n.
C1_NoTransformerCompletes ==
    (/\ ~cfg.use_transformer
     /\ cfg.lemma.kind = "DecoderRNN"
     /\ Len(surface_words) >= 1
     /\ \A k \in 1..Len(surface_words) : surface_words[k] # <<>>)
    => /\ pc # "raised"
       /\ (pc = "returned" => SentenceOk(conll_sentence))

\* C2: a string predict_sentence returns for n >= 1 words is "# Sentence"
\* followed by n word lines of 10 tab-separated fields (k, surface, lemma,
\* _, _, tags joined by ';', _, _, _, _), and the drivers write a line break
\* after every returned sentence.
C2_OutputFormat ==
    /\ (pc = "returned" /\ Len(surface_words) >= 1) => SentenceOk(conll_sentence)
    /\ file = WithBlankLines(written)

\* C2 case: predict_unimorph wrote two sentences, the last one of two words
C2_Witness ==
    /\ pc = "finished"
    /\ driver = "predict_unimorph"
    /\ Len(written) = 2
    /\ written[1] # <<>>
    /\ Len(surface_words) = 2
    /\ morph_tags[2] # <<>>

\* C3 (as claimed): in a returned sentence, every word whose surface form is
\* a key of surface2lemma carries the dictionary's lemma in its line, for
\* the character decoder and for the transformation decoder.
C3_DictionaryOverrides ==
    (pc = "returned" /\ Len(surface_words) >= 1) =>
        \A k \in 1..Len(surface_words) :
            HasKey(surface2lemma, surface_words[k]) =>
                FieldsOf(conll_sentence, k)[3] = Lookup(surface2lemma, surface_words[k])

(***************************************************************************)
(* Further claims about predict_sentence and its callers                   *)
(***************************************************************************)
\* the sentence in hand holds a word with zero characters
HasEmptyWord == \E k \in 1..Len(surface_words) : surface_words[k] = <<>>

\* C15 (as claimed): a sentence with an empty-string word makes
\* predict_sentence fail at once: the call never gets past its encoder (no
\* decoder runs, nothing is returned for the sentence).
C15_EmptyWordFailsAtOnce ==
    HasEmptyWord =>
        /\ pc \in {"call", "raised"}
        /\ decoded = <<>> /\ morph_tags = <<>>

\* C18 (as claimed): with a tokenizer that gives every non-empty string a
\* subword, the word_ids handed to the encoder for a sentence of n non-empty
\* words hold every word index 0..n-1, are as many as the subword ids, and
\* never decrease.
C18_EveryWordHasASubword ==
    (/\ cfg.use_transformer
     /\ pc # "call"
     /\ Len(surface_words) >= 1
     /\ ~HasEmptyWord)
    => /\ Elems(word_ids) = 0 .. (Len(surface_words) - 1)
       /\ Len(word_ids) = Len(SubTokens(surface_words))
       /\ \A p, q \in 1..Len(word_ids) : p < q => word_ids[p] <= word_ids[q]

\* C19 (as claimed): predict(), with the decoders it constructs, processes
\* every sentence without error, and a sentence of n >= 1 words yields n
\* lines with the surface in column 2, the lemma in column 3 and the tags,
\* joined by ';', in column 6.
C19_PredictProcessesEverySentence ==
    driver = "predict" =>
        /\ pc # "raised"
        /\ (pc = "returned" /\ Len(surface_words) >= 1) => SentenceOk(conll_sentence)

\* the vectors stacked into a decoder's initial state are as many as its
\* recurrent unit takes (DecoderFF has no recurrent unit)
DepthMatches(dec, withTransformer) ==
    /\ dec.kind = "DecoderRNN" => DecoderRNNRuns(dec, withTransformer)
    /\ dec.kind = "TransformerRNN" => TransformerRNNRuns(dec, withTransformer)

\* C23 (as claimed): for every decoder predict() and predict_unimorph()
\* construct, with and without the transformer, the number of vectors
\* stacked into the initial recurrent state (DecoderRNN: 3 or 2;
\* TransformerRNN: 6 or 4) is the depth its recurrent unit requires
\* (layer_size, or 2 * layer_size for the bidirectional TransformerRNN).
C23_StackMatchesDepth ==
    driver \in {"predict", "predict_unimorph"} =>
        /\ DepthMatches(cfg.lemma, cfg.use_transformer)
        /\ DepthMatches(cfg.morph, cfg.use_transformer)

\* the calls of a complete run of predict_sentence on the sentence in hand
ExpectedCalls ==
    LET n == Len(surface_words)
    IN <<[callee |-> "encoder", word |-> 0]>>
       \o (IF cfg.lemma.kind = "TransformerRNN"
           THEN <<[callee |-> "decoder_lemma", word |-> 0]>>
           ELSE [k \in 1..n |-> [callee |-> "decoder_lemma", word |-> k]])
       \o (IF surface2lemma # {} THEN <<[callee |-> "override", word |-> 0]>> ELSE <<>>)
       \o [k \in 1..n |-> [callee |-> "decoder_morph_tags", word |-> k]]

\* C25: predict_sentence on n >= 1 words calls the encoder once and first,
\* then the lemma decoder (once for the sentence when it is a
\* TransformerRNN, once per word and in word order otherwise), then applies
\* the dictionary override, then calls the tag decoder once per word in word
\* order: at every moment the calls made are the beginning of this list, and
\* a call that returns has made them all.
C25_OrderOfCalls ==
    Len(surface_words) >= 1 =>
        /\ IsPrefix(call_log, ExpectedCalls)
        /\ pc \in {"format", "returned"} => call_log = ExpectedCalls

\* C25 case: a returned sentence of two words, lemmas decoded word by word,
\* with a dictionary
C25_Witness ==
    /\ pc = "returned"
    /\ Len(surface_words) = 2
    /\ cfg.lemma.kind = "DecoderRNN"
    /\ surface2lemma # {}
    /\ Len(call_log) = 6

\* the override of the word's lemma came from a dictionary entry that the
\* override loop looked up for this word
Overridden(k) ==
    \E e \in surface2lemma :
        /\ e[1] \in {surface_words[k], DropLast(surface_words[k])}
        /\ e[2] = lemmas[k]

\* C27: in a returned sentence the surface field of word k is the input
\* token without its last character when that is '$' (one '$' only), and the
\* input token itself otherwise; the index field is k, the tag field is the
\* tag decoder's answer joined by ';', the lemma field is the lemma decoder's
\* answer unless the dictionary override matched the word, and then it is
\* the dictionary's lemma: the override changes no other field and no other
\* word.
C27_SurfaceFieldStripsOneEos ==
    (pc = "returned" /\ Len(surface_words) >= 1) =>
        \A k \in 1..Len(surface_words) :
            LET f == FieldsOf(conll_sentence, k)
                surface == surface_words[k]
            IN /\ IF surface # <<>> /\ surface[Len(surface)] = "$"
                  THEN f[2] \o <<"$">> = surface
                  ELSE f[2] = surface
               /\ f[1] = FormatInt(k)
               /\ f[6] = Join(morph_tags[k], ";")
               /\ f[3] = decoded[k] \/ (f[3] = lemmas[k] /\ Overridden(k))

\* C27 case: a returned sentence with a word ending in two '$' whose lemma is
\* the decoder's, and a word ending in '$' whose lemma the dictionary replaced
C27_Witness ==
    /\ pc = "returned"
    /\ \E k, j \in 1..Len(surface_words) :
        /\ surface_words[k] = <<"$", "$">>
        /\ FieldsOf(conll_sentence, k)[2] = <<"$">>
        /\ FieldsOf(conll_sentence, k)[3] = decoded[k]
        /\ surface_words[j] = <<"a", "$">>
        /\ FieldsOf(conll_sentence, j)[3] # decoded[j]
        /\ morph_tags[j] # <<>>

(***************************************************************************)
(* Claims about ConllDataset                                               *)
(***************************************************************************)
\* the dict a dataset's attribute refers to
VocabOf(n, kind) == heap[datasets[n][kind]]

\* symbols and ids 0..size-1 in one-to-one correspondence, PAD at 0
DenseBijection(d) ==
    /\ \A s1, s2 \in DOMAIN d : s1 # s2 => d[s1] # d[s2]
    /\ {d[s] : s \in DOMAIN d} = 0 .. (Size(d) - 1)
    /\ PAD_token \in DOMAIN d /\ d[PAD_token] = 0

\* C11 (as claimed): after ConllDataset construction in any mode, with or
\* without supplied vocabularies, each of the four vocabularies maps its
\* symbols one-to-one onto the ids 0..size-1, and PAD has id 0.
C11_VocabularyBijection ==
    \A n \in 1..Len(datasets) : \A kind \in KindSet : DenseBijection(VocabOf(n, kind))

\* PAD, END and START at ids 0, 1, 2 and every other symbol above them
ThreeReserved(d) ==
    /\ {PAD_token, EOS_token, START_TAG} \subseteq DOMAIN d
    /\ d[PAD_token] = 0 /\ d[EOS_token] = 1 /\ d[START_TAG] = 2
    /\ \A s \in DOMAIN d : s \notin {PAD_token, EOS_token, START_TAG} => d[s] > 2

\* C12 (as claimed): every vocabulary of a dataset holds PAD, END and START
\* at ids 0, 1 and 2, and no real symbol has an id <= 2.
C12_ThreeReservedEverywhere ==
    \A n \in 1..Len(datasets) : \A kind \in KindSet : ThreeReserved(VocabOf(n, kind))

\* the reserved symbols a vocabulary of this kind holds, in id order
ReservedOf(kind) ==
    IF kind = "surface_char2id" THEN <<PAD_token, EOS_token>>
    ELSE IF kind = "transformation2id" THEN <<PAD_token>>
    ELSE <<PAD_token, EOS_token, START_TAG>>

\* C12 (amended): the lemma and tag vocabularies hold PAD, END, START at ids
\* 0, 1, 2; the surface vocabulary holds only PAD and END (ids 0, 1) and the
\* transformation vocabulary only PAD (id 0); in each vocabulary every real
\* symbol has an id at or above the number of its reserved symbols, and no
\* other reserved symbol is a key.
C12_ReservedPerVocabulary ==
    \A n \in 1..Len(datasets) : \A kind \in KindSet :
        LET d == VocabOf(n, kind)
            reserved == ReservedOf(kind)
        IN /\ \A r \in 1..Len(reserved) : reserved[r] \in DOMAIN d /\ d[reserved[r]] = r - 1
           /\ \A s \in {PAD_token, EOS_token, START_TAG} :
                s \in DOMAIN d => s \in SetOf(reserved)
           /\ \A s \in DOMAIN d : s \notin SetOf(reserved) => d[s] >= Len(reserved)

\* C12 case: a trained dataset whose surface vocabulary gives a character
\* id 2, whose transformation vocabulary gives a label id 1 and whose tag
\* vocabulary gives a tag id 3
C12_Witness ==
    \E n \in 1..Len(datasets) :
        /\ datasets[n].mode = "train"
        /\ \E s \in DOMAIN VocabOf(n, "surface_char2id") :
                VocabOf(n, "surface_char2id")[s] = 2
        /\ \E s \in DOMAIN VocabOf(n, "transformation2id") :
                VocabOf(n, "transformation2id")[s] = 1
        /\ \E s \in DOMAIN VocabOf(n, "morph_tag2id") :
                VocabOf(n, "morph_tag2id")[s] = 3

\* C13: a dataset constructed with mode 'test' refers to the very dicts the
\* caller supplied, creates dicts only for the vocabularies not supplied, and
\* neither its construction nor the encode / __getitem__ / predict_sentence
\* calls that follow change any mapping of any dict that existed before.
C13_FrozenVocabulariesUntouched ==
    datasets # <<>> =>
        LET n == Len(datasets) IN
        datasets[n].mode = "test" =>
            /\ \A kind \in KindSet :
                supplied[n][kind] # 0 => datasets[n][kind] = supplied[n][kind]
            /\ Len(heap) = Len(frozen[n])
                            + Cardinality({kind \in KindSet : supplied[n][kind] = 0})
            /\ \A r \in 1..Len(frozen[n]) : heap[r] = frozen[n][r]

\* C13 case: a test dataset over four supplied, trained vocabularies, whose
\* sentences hold a character the vocabulary lacks, after an encoding call
C13_Witness ==
    /\ Len(datasets) = 2
    /\ datasets[2].mode = "test"
    /\ \A kind \in KindSet : supplied[2][kind] # 0
    /\ Size(VocabOf(2, "surface_char2id")) = 3
    /\ "b" \in UniqueSurfaceChars(datasets[2].sentences)
    /\ item.op = "__getitem__"
    /\ encodeCalls # <<>>

\* C14: every call of encode returns (no error for unknown symbols); what it
\* returns is the ids of the symbols of seq that are keys, in their order,
\* after the START id when add_start_tag and before the END id when
\* add_end_tag; so it is no longer than seq plus the markers.
C14_EncodeSkipsUnknown ==
    \A c \in 1..Len(encodeCalls) :
        LET call == encodeCalls[c]
            vocab == heap[call.vocab]
            known == SelectSeq(call.seq, LAMBDA s : s \in DOMAIN vocab)
            markers == (IF call.add_start_tag THEN 1 ELSE 0)
                        + (IF call.add_end_tag THEN 1 ELSE 0)
        IN /\ call.res.kind = "returned"
           /\ Len(call.res.ids) = Len(known) + markers
           /\ Len(call.res.ids) <= Len(call.seq) + markers
           /\ call.add_start_tag => call.res.ids[1] = vocab[START_TAG]
           /\ call.add_end_tag => call.res.ids[Len(call.res.ids)] = vocab[EOS_token]
           /\ \A p \in 1..Len(known) :
                call.res.ids[p + (IF call.add_start_tag THEN 1 ELSE 0)] = vocab[known[p]]

\* C14 case: one operation encoded a sequence holding a known and an unknown
\* symbol, and a sequence with the START marker whose symbol is unknown
C14_Witness ==
    /\ \E c \in 1..Len(encodeCalls) :
        /\ \E p \in 1..Len(encodeCalls[c].seq) :
                encodeCalls[c].seq[p] \in DOMAIN heap[encodeCalls[c].vocab]
        /\ \E p \in 1..Len(encodeCalls[c].seq) :
                encodeCalls[c].seq[p] \notin DOMAIN heap[encodeCalls[c].vocab]
    /\ \E c \in 1..Len(encodeCalls) :
        /\ encodeCalls[c].add_start_tag
        /\ \E p \in 1..Len(encodeCalls[c].seq) :
                encodeCalls[c].seq[p] \notin DOMAIN heap[encodeCalls[c].vocab]

\* the positions of row w of encoded_surfaces that encode() did not fill
PaddedPosition(w, k) == k > Len(encodeCalls[w].res.ids)

\* C24 (as claimed): TransformerRNN.predict returns one lemma per surface
\* word, in word order; the labels handed to inverse_transformation for a
\* word are exactly len(surface) many, they are the first len(surface)
\* arg-max labels of that word's row, and none of them is the label of a
\* padded position (rows encoded from the characters, use_char_lstm = True).
C24_TruncatedLabels ==
    (item.op = "TransformerRNN.predict" /\ Len(encodeCalls) = Len(item.surfaces)) =>
        /\ Len(item.predictions) = Len(item.surfaces)
        /\ \A w \in 1..Len(item.predictions) :
            LET call == item.predictions[w] IN
            /\ call.surface = item.surfaces[w]
            /\ Len(call.prediction) = Len(call.surface)
            /\ \A k \in 1..Len(call.prediction) :
                /\ call.prediction[k].row = w
                /\ call.prediction[k].position = k
                /\ ~PaddedPosition(w, k)

(***************************************************************************)
(* Claims about EncoderRNN.forward                                         *)
(***************************************************************************)
\* C16: a call of forward whose input has a batch dimension other than 1
\* ends in the assertion error of the first statement and in nothing else,
\* and it never writes char_gru_hidden or word_gru_hidden: what they hold
\* was not stored by this call.
C16_BatchAssertBeforeState ==
    \A p \in Callers :
        x2[p].batch # 1 =>
            /\ epc[p] \in {"call", "raised"}
            /\ epc[p] = "raised" => eresult[p].kind = "AssertionError"
            /\ char_gru_hidden.call # p
            /\ word_gru_hidden.call # p

\* C16 case: a call with batch dimension 2 failed on an encoder whose hidden
\* state an earlier, finished call had stored
C16_Witness ==
    \E p, q \in Callers :
        /\ x2[p].batch = 2 /\ epc[p] = "raised"
        /\ epc[q] = "done"
        /\ char_gru_hidden.call = q /\ word_gru_hidden.call = q

\* what a call of forward ends with when no other call runs on the encoder
Alone(p) ==
    IF x2[p].batch = 1 THEN [kind |-> "returned", words |-> x2[p].words]
    ELSE [kind |-> "AssertionError", words |-> 0]

\* C17 (as claimed): two sentence predictions interleaved at any point on
\* one encoder each end as they end when run alone.
C17_InterleavingIsSafe ==
    \A p \in Callers : epc[p] \in {"done", "raised"} => eresult[p] = Alone(p)

=============================================================================
